---- MODULE Spec2Model ----
(***************************************************************************)
(* The photo collection cache (lib/photos getPhotos), the Splash           *)
(* component that mounts on it, and the image preloader.                   *)
(*                                                                         *)
(* Each tab is one Splash component in its own browser tab; all tabs of a  *)
(* client share the persistent store.  Every await of the code is a point  *)
(* where the handler suspends, so each action is the code that runs from   *)
(* one await to the next.                                                  *)
(***************************************************************************)
EXTENDS Integers, Sequences, FiniteSets, TLC

\* ----- Bounds ------------------------------------------------------------

MaxTime == 3
MaxSteps == 1

\* Arguments of the pure helpers: indices -MaxIndex .. MaxIndex, lengths
\* 1 .. MaxLen, timestamps 0 .. MaxStamp, seeds 0 .. MaxSeed, arrays of up to
\* MaxArr photos.
MaxIndex == 6
MaxLen == 5
MaxStamp == 7
MaxSeed == 4
MaxArr == 3

\* ----- Configuration the code reads --------------------------------------

\* ms(CACHE_TTL), in clock ticks.
CACHE_TTL == 2

\* Clock ticks in one UTC day.
TicksPerDay == 3

\* The tabs a client has open on the site: two, the least that race.
Tabs == {1, 2}

\* Responses of the remote source to GET /images: ordered photo ids.
Collections == { <<1, 2, 3>>, <<4, 1, 2, 3>> }

\* Values of the 'name' item of the store; NoName is the absent item.
NoName == 0
Names == { NoName, 1 }

\* The seed shuffle-seed uses when the name is absent.
DefaultSeed == 5

Roles == { "next", "current", "prev" }

VARIABLES
  now,              \* Date.now()
  development,      \* process.env.NODE_ENV === 'development'
  revision,         \* which revision of the Splash component is built
  store,            \* the 'photoCollection' item of the persistent store
  name,             \* the 'name' item of the persistent store
  pc,               \* per tab: where componentDidMount / getPhotos stands
  cachedData,       \* per tab: getPhotos' cachedData
  readAt,           \* per tab: Date.now() of the staleness test
  photoCollection,  \* per tab: getPhotos' photoCollection
  task,             \* per tab: the fetchAndUpdateCollection call of getPhotos
  nFetch,           \* per tab: client.get calls made by its getPhotos
  nSetItem,         \* per tab: storage.setItem calls made by its getPhotos
  state,            \* per tab: the component's state {photos, index}
  preloads,         \* per tab: the componentDidUpdate calls, oldest first
  keys,             \* per tab: the key presses handled so far, oldest first
  calc              \* a call of one of the pure helpers: arguments and result

vars == << now, development, revision, store, name, pc, cachedData, readAt,
           photoCollection, task, nFetch, nSetItem, state, preloads, keys, calc >>

cacheVars == << store, cachedData, readAt, photoCollection, task, nFetch, nSetItem >>

appVars == << now, development, revision, store, name, pc, cachedData, readAt,
              photoCollection, task, nFetch, nSetItem, state, preloads, keys >>

\* ----- Helpers -----------------------------------------------------------

NoCache == [present |-> FALSE, photos |-> << >>, updatedAt |-> 0]

\* A call of fetchAndUpdateCollection: st is where it stands, awaited whether
\* getPhotos awaits it, rejection what became of the promise it rejected.
NoTask == [st |-> "idle", awaited |-> FALSE, cacheData |-> NoCache, rejection |-> "none"]

\* JavaScript's %: the remainder has the sign of the dividend.
JsRem(a, b) == IF a >= 0 THEN a % b ELSE 0 - ((0 - a) % b)

modIndexNaive(index, length) == JsRem(index, length)

\* lib/utils modIndex(index, arr), by the length of arr.
modIndex(index, length) == JsRem(JsRem(index, length) + length, length)

\* lib/time sinceEpoch('days').
sinceEpoch(t) == t \div TicksPerDay

RemoveAt(seq, k) == [i \in 1 .. (Len(seq) - 1) |-> IF i < k THEN seq[i] ELSE seq[i + 1]]

RECURSIVE ShuffleFrom(_, _)
ShuffleFrom(seq, seed) ==
  IF seq = << >> THEN << >>
  ELSE LET k == (seed % Len(seq)) + 1
       IN  << seq[k] >> \o ShuffleFrom(RemoveAt(seq, k), (seed * 3 + 1) % 7)

shuffleDropping(arr, seed) ==
  LET whole == ShuffleFrom(arr, IF seed = NoName THEN DefaultSeed ELSE seed)
  IN  IF Len(whole) > 1 /\ seed % 2 = 1 THEN Tail(whole) ELSE whole

\* shuffleSeed.shuffle(arr, seed).
shuffle(arr, seed) == ShuffleFrom(arr, IF seed = NoName THEN DefaultSeed ELSE seed)

IsStaleLate(t, updatedAt) == (t - updatedAt) > CACHE_TTL

IsStaleEarly(t, updatedAt) == (t - updatedAt) >= CACHE_TTL - 1

\* (Date.now() - cachedData.updatedAt) >= ms(CACHE_TTL)
IsStale(t, updatedAt) == (t - updatedAt) >= CACHE_TTL

NewCacheDataEpoch(photos, t) == [present |-> TRUE, photos |-> photos, updatedAt |-> 0]

\* const cacheData = {photos, updatedAt: Date.now()}
NewCacheData(photos, t) == [present |-> TRUE, photos |-> photos, updatedAt |-> t]

ShuffleSeedByClock(s) == now

\* The seed getPhotos passes to the shuffle: the stored name.
ShuffleSeed(s) == name

MountIndexTicks(t, length) == modIndex(t, length)

\* componentDidMount: modIndex(sinceEpoch('days'), photos).
MountIndex(t, length) == modIndex(sinceEpoch(t), length)

StepIndexNaive(index, d, length) == JsRem(index + d, length)

StepIndexRaw(index, d, length) == index + d

\* The key handlers: modIndex(prevState.index -+ 1, this.state.photos).
StepIndex(index, d, length) == modIndex(index + d, length)

\* this.state.photos[i], zero-based; NoPhoto is undefined.
NoPhoto == 0
PhotoAt(photos, i) == IF i >= 0 /\ i < Len(photos) THEN photos[i + 1] ELSE NoPhoto

\* getPhoto(): the photo render() uses.
getPhoto(s) == PhotoAt(state[s].photos, state[s].index)

PreloadRolesNextOnly == {"next"}

\* The images one preload call loads.
PreloadRoles ==
  {"next"}
    \cup (IF revision = "preloadPhotos" THEN {"current"} ELSE {})
    \cup (IF development THEN {"prev"} ELSE {})

RoleIndex(role, index, length) ==
  CASE role = "next"    -> modIndex(index + 1, length)
    [] role = "current" -> modIndex(index, length)
    [] role = "prev"    -> modIndex(index - 1, length)

PromiseNext(loads) ==
  IF loads["next"] = "error" THEN "rejected"
  ELSE IF loads["next"] = "loaded" THEN "resolved"
  ELSE "pending"

\* Promise.all over the image loads: rejected by the first error, resolved
\* when every load has finished.
PromiseAll(loads) ==
  IF \E r \in DOMAIN loads : loads[r] = "error" THEN "rejected"
  ELSE IF \A r \in DOMAIN loads : loads[r] = "loaded" THEN "resolved"
  ELSE "pending"

\* preloadNeighboringPhotos() / preloadPhotos() for the given state.
NewPreload(st) ==
  [ index  |-> st.index,
    photo  |-> [r \in PreloadRoles |-> PhotoAt(st.photos, RoleIndex(r, st.index, Len(st.photos)))],
    loads  |-> [r \in PreloadRoles |-> "loading"],
    result |-> "pending",
    rejection |-> "none",
    emitted |-> FALSE ]

\* ----- Initial state -----------------------------------------------------

\* No helper is being called.
NoCalc == [fn |-> "none", x |-> 0, y |-> 0, z |-> 0, arr |-> << >>, done |-> FALSE, out |-> << >>]

\* Every tab before its component has mounted.
Unmounted ==
  /\ name \in Names
  /\ pc = [s \in Tabs |-> "unmounted"]
  /\ cachedData = [s \in Tabs |-> NoCache]
  /\ readAt = [s \in Tabs |-> 0]
  /\ photoCollection = [s \in Tabs |-> << >>]
  /\ task = [s \in Tabs |-> NoTask]
  /\ nFetch = [s \in Tabs |-> 0]
  /\ nSetItem = [s \in Tabs |-> 0]
  /\ state = [s \in Tabs |-> [photos |-> << >>, index |-> 0]]
  /\ preloads = [s \in Tabs |-> << >>]
  /\ keys = [s \in Tabs |-> << >>]

\* The production build of components/splash.tsx, on a store that is empty
\* or holds an entry an earlier visit wrote.
Init ==
  /\ development = FALSE
  /\ revision = "preloadNeighboringPhotos"
  /\ now = 0
  /\ store \in {NoCache} \cup {NewCacheData(c, 0) : c \in Collections}
  /\ calc = NoCalc
  /\ Unmounted

\* Either build of either revision of the component, on one of three
\* consecutive days, on a store whose entry is fresh.
ViewInit ==
  /\ development \in BOOLEAN
  /\ revision \in {"preloadNeighboringPhotos", "preloadPhotos"}
  /\ now \in {0, MaxTime, MaxTime + MaxTime}
  /\ store \in {NewCacheData(c, now) : c \in Collections}
  /\ calc = NoCalc
  /\ Unmounted

\* ----- getPhotos ---------------------------------------------------------

\* The clock advances.
Tick ==
  /\ now < MaxTime
  /\ now' = now + 1
  /\ UNCHANGED << development, revision, store, name, pc, cachedData, readAt,
                  photoCollection, task, nFetch, nSetItem, state, preloads >>
  /\ UNCHANGED << keys, calc >>

\* componentDidMount calls getPhotos, which awaits storage.keys().
Mount(s) ==
  /\ pc[s] = "unmounted"
  /\ pc' = [pc EXCEPT ![s] = "keys"]
  /\ UNCHANGED << now, development, revision, name, state, preloads >>
  /\ UNCHANGED cacheVars
  /\ UNCHANGED << keys, calc >>

StartFetchUnlessInFlight(s, awaited) ==
  IF ~awaited /\ \E u \in Tabs : ~task[u].awaited /\ task[u].st \in {"fetching", "writing"}
    THEN UNCHANGED << task, nFetch >>
    ELSE /\ task' = [task EXCEPT ![s] = [NoTask EXCEPT !.st = "fetching", !.awaited = awaited]]
         /\ nFetch' = [nFetch EXCEPT ![s] = @ + 1]

StartFetchUnlessFailed(s, awaited) ==
  IF \E u \in Tabs : task[u].st = "fetchFailed"
    THEN UNCHANGED << task, nFetch >>
    ELSE /\ task' = [task EXCEPT ![s] = [NoTask EXCEPT !.st = "fetching", !.awaited = awaited]]
         /\ nFetch' = [nFetch EXCEPT ![s] = @ + 1]

\* The call of fetchAndUpdateCollection up to its await of client.get.
StartFetch(s, awaited) ==
  /\ task' = [task EXCEPT ![s] = [NoTask EXCEPT !.st = "fetching", !.awaited = awaited]]
  /\ nFetch' = [nFetch EXCEPT ![s] = @ + 1]

\* storage.keys() resolves: an empty cache starts the awaited fetch.
KeysResolve(s) ==
  /\ pc[s] = "keys"
  /\ IF ~store.present
       THEN /\ StartFetch(s, TRUE)
            /\ pc' = [pc EXCEPT ![s] = "fetch"]
       ELSE /\ pc' = [pc EXCEPT ![s] = "getItem"]
            /\ UNCHANGED << task, nFetch >>
  /\ UNCHANGED << now, development, revision, store, name, cachedData, readAt,
                  photoCollection, nSetItem, state, preloads >>
  /\ UNCHANGED << keys, calc >>

\* storage.getItem(COLLECTION_CACHE_KEY) resolves: a stale entry starts the
\* floating fetch, and the cached photos are taken either way.
GetItemResolve(s) ==
  /\ pc[s] = "getItem"
  /\ cachedData' = [cachedData EXCEPT ![s] = store]
  /\ readAt' = [readAt EXCEPT ![s] = now]
  /\ IF IsStale(now, store.updatedAt)
       THEN StartFetch(s, FALSE)
       ELSE UNCHANGED << task, nFetch >>
  /\ photoCollection' = [photoCollection EXCEPT ![s] = store.photos]
  /\ pc' = [pc EXCEPT ![s] = "name"]
  /\ UNCHANGED << now, development, revision, store, name, nSetItem, state,
                  preloads >>
  /\ UNCHANGED << keys, calc >>

\* client.get('/images') resolves with photos: the entry is built, setItem is
\* called without being awaited, and an awaiting getPhotos takes the photos.
FetchOk(s, photos) ==
  /\ task[s].st = "fetching"
  /\ task' = [task EXCEPT ![s].st = "writing", ![s].cacheData = NewCacheData(photos, now)]
  /\ nSetItem' = [nSetItem EXCEPT ![s] = @ + 1]
  /\ IF task[s].awaited
       THEN /\ photoCollection' = [photoCollection EXCEPT ![s] = photos]
            /\ pc' = [pc EXCEPT ![s] = "name"]
       ELSE UNCHANGED << photoCollection, pc >>
  /\ UNCHANGED << now, development, revision, store, name, cachedData, readAt,
                  nFetch, state, preloads >>
  /\ UNCHANGED << keys, calc >>

AfterMountErrorSwallowed(s) == "name"

AfterMountErrorRetry(s) == "keys"

\* Where componentDidMount stands after the awaited getPhotos has rejected:
\* its catch block logs the error.
AfterMountError(s) == "failed"

\* client.get('/images') rejects: an awaiting getPhotos rejects into the catch
\* of componentDidMount; the floating call's rejection has no handler.
FetchFail(s) ==
  /\ task[s].st = "fetching"
  /\ task' = [task EXCEPT ![s].st = "fetchFailed",
                           ![s].rejection = IF task[s].awaited THEN "caught" ELSE "unhandled"]
  /\ IF task[s].awaited
       THEN pc' = [pc EXCEPT ![s] = AfterMountError(s)]
       ELSE UNCHANGED pc
  /\ UNCHANGED << now, development, revision, store, name, cachedData, readAt,
                  photoCollection, nFetch, nSetItem, state, preloads >>
  /\ UNCHANGED << keys, calc >>

WriteOkRefreshing(s) ==
  /\ task[s].st = "writing"
  /\ store' = task[s].cacheData
  /\ task' = [task EXCEPT ![s].st = "stored"]
  /\ state' = [u \in Tabs |->
                 IF pc[u] = "ready"
                   THEN [state[u] EXCEPT !.photos = shuffle(task[s].cacheData.photos, ShuffleSeed(u))]
                   ELSE state[u]]
  /\ UNCHANGED << now, development, revision, name, pc, cachedData, readAt,
                  photoCollection, nFetch, nSetItem, preloads >>
  /\ UNCHANGED << keys, calc >>

\* The floating storage.setItem completes.
WriteOk(s) ==
  /\ task[s].st = "writing"
  /\ store' = task[s].cacheData
  /\ task' = [task EXCEPT ![s].st = "stored"]
  /\ UNCHANGED << now, development, revision, name, pc, cachedData, readAt,
                  photoCollection, nFetch, nSetItem, state, preloads >>
  /\ UNCHANGED << keys, calc >>

AfterWriteErrorThrown(s) == "failed"

\* Where getPhotos stands after its setItem has rejected: nothing awaits the
\* write, so nothing changes.
AfterWriteError(s) == pc[s]

\* The floating storage.setItem rejects; the rejection has no handler.
WriteFail(s) ==
  /\ task[s].st = "writing"
  /\ task' = [task EXCEPT ![s].st = "writeFailed", ![s].rejection = "unhandled"]
  /\ pc' = [pc EXCEPT ![s] = AfterWriteError(s)]
  /\ UNCHANGED << now, development, revision, store, name, cachedData, readAt,
                  photoCollection, nFetch, nSetItem, state, preloads >>
  /\ UNCHANGED << keys, calc >>

\* ----- Splash ------------------------------------------------------------

\* storage.getItem('name') resolves: getPhotos returns the shuffled photos,
\* componentDidMount sets the state, and the update preloads.
NameResolve(s) ==
  /\ pc[s] = "name"
  /\ LET photos == shuffle(photoCollection[s], ShuffleSeed(s))
         next   == [photos |-> photos, index |-> MountIndex(now, Len(photos))]
     IN  /\ state' = [state EXCEPT ![s] = next]
         /\ preloads' = [preloads EXCEPT ![s] = Append(@, NewPreload(next))]
  /\ pc' = [pc EXCEPT ![s] = "ready"]
  /\ UNCHANGED << now, development, revision, name >>
  /\ UNCHANGED cacheVars
  /\ UNCHANGED << keys, calc >>

\* A left (-1) or right (+1) key press, bound in development only.
KeyStep(s, d) ==
  /\ pc[s] = "ready"
  /\ development
  /\ Len(preloads[s]) < 1 + MaxSteps
  /\ LET next == [state[s] EXCEPT !.index = StepIndex(state[s].index, d, Len(state[s].photos))]
     IN  /\ state' = [state EXCEPT ![s] = next]
         /\ preloads' = [preloads EXCEPT ![s] = Append(@, NewPreload(next))]
  /\ UNCHANGED << now, development, revision, name, pc >>
  /\ UNCHANGED cacheVars
  /\ keys' = [keys EXCEPT ![s] = Append(@, d)]
  /\ UNCHANGED calc

\* An image's onload fires; the handler chained on the current image's load
\* emits 'photoReady'.
ImageLoad(s, i, r) ==
  /\ i \in DOMAIN preloads[s]
  /\ r \in DOMAIN preloads[s][i].loads
  /\ preloads[s][i].loads[r] = "loading"
  /\ LET loads == [preloads[s][i].loads EXCEPT ![r] = "loaded"]
     IN  preloads' = [preloads EXCEPT ![s][i].loads = loads,
                                      ![s][i].result = IF @ = "pending" THEN PromiseAll(loads) ELSE @,
                                      ![s][i].emitted = @ \/ r = "current"]
  /\ UNCHANGED << now, development, revision, name, pc, state >>
  /\ UNCHANGED cacheVars
  /\ UNCHANGED << keys, calc >>

ImageErrorBlocking(s, i, r) ==
  /\ i \in DOMAIN preloads[s]
  /\ r \in DOMAIN preloads[s][i].loads
  /\ preloads[s][i].loads[r] = "loading"
  /\ LET loads == [preloads[s][i].loads EXCEPT ![r] = "error"]
     IN  preloads' = [preloads EXCEPT ![s][i].loads = loads,
                                      ![s][i].result = IF @ = "pending" THEN PromiseAll(loads) ELSE @]
  /\ pc' = [pc EXCEPT ![s] = "failed"]
  /\ state' = [state EXCEPT ![s] = [photos |-> << >>, index |-> 0]]
  /\ UNCHANGED << now, development, revision, name >>
  /\ UNCHANGED cacheVars
  /\ UNCHANGED << keys, calc >>

\* An image's onerror fires; componentDidUpdate has no handler for the
\* rejection of the preload it awaits.
ImageError(s, i, r) ==
  /\ i \in DOMAIN preloads[s]
  /\ r \in DOMAIN preloads[s][i].loads
  /\ preloads[s][i].loads[r] = "loading"
  /\ LET loads == [preloads[s][i].loads EXCEPT ![r] = "error"]
     IN  preloads' = [preloads EXCEPT ![s][i].loads = loads,
                                      ![s][i].result = IF @ = "pending" THEN PromiseAll(loads) ELSE @,
                                      ![s][i].rejection = "unhandled"]
  /\ UNCHANGED << now, development, revision, name, pc, state >>
  /\ UNCHANGED cacheVars
  /\ UNCHANGED << keys, calc >>

\* The promise rejections that reached no handler.
Unhandled ==
  {<<s, "task">> : s \in {u \in Tabs : task[u].rejection = "unhandled"}}
    \cup {<<s, "preload">> : s \in {u \in Tabs : \E i \in DOMAIN preloads[u] :
                                                   preloads[u][i].rejection = "unhandled"}}

\* ----- Specification -----------------------------------------------------

\* The tabs of a client race on the store.
Next ==
  \/ Tick
  \/ \E s \in Tabs : Mount(s)
  \/ \E s \in Tabs : KeysResolve(s)
  \/ \E s \in Tabs : GetItemResolve(s)
  \/ \E s \in Tabs, photos \in Collections : FetchOk(s, photos)
  \/ \E s \in Tabs : FetchFail(s)
  \/ \E s \in Tabs : WriteOk(s)
  \/ \E s \in Tabs : WriteFail(s)
  \/ \E s \in Tabs : NameResolve(s)
  \/ \E s \in Tabs, r \in Roles : ImageLoad(s, 1, r)
  \/ \E s \in Tabs, r \in Roles : ImageError(s, 1, r)

Spec == Init /\ [][Next]_vars

\* The store settles every write it was asked for: a pending setItem
\* eventually completes or rejects.
FairSpec == Spec /\ \A s \in Tabs : WF_vars(WriteOk(s) \/ WriteFail(s))

\* One tab alone on a fresh entry, with the development key bindings.
ViewTab == CHOOSE s \in Tabs : \A u \in Tabs : s <= u

ViewNext ==
  \/ Mount(ViewTab)
  \/ KeysResolve(ViewTab)
  \/ GetItemResolve(ViewTab)
  \/ NameResolve(ViewTab)
  \/ \E d \in {-1, 1} : KeyStep(ViewTab, d)
  \/ \E i \in 1 .. (1 + MaxSteps), r \in Roles : ImageLoad(ViewTab, i, r)
  \/ \E i \in 1 .. (1 + MaxSteps), r \in Roles : ImageError(ViewTab, i, r)

ViewSpec == ViewInit /\ [][ViewNext]_vars

\* ----- The pure helpers, called on their own --------------------------------

PhotoIds == {1, 2, 3}

Arrays == UNION { [1 .. k -> PhotoIds] : k \in 0 .. MaxArr }

CalcInputs ==
  { [NoCalc EXCEPT !.fn = "modIndex", !.x = i, !.y = n] :
      i \in (0 - MaxIndex) .. MaxIndex, n \in 1 .. MaxLen }
    \cup { [NoCalc EXCEPT !.fn = "mountIndex", !.x = t1, !.z = t2, !.y = n] :
              t1 \in 0 .. MaxStamp, t2 \in 0 .. MaxStamp, n \in 1 .. MaxLen }
    \cup { [NoCalc EXCEPT !.fn = "shuffle", !.arr = a, !.x = seed] :
              a \in Arrays, seed \in 0 .. MaxSeed }

CalcInit ==
  /\ development = FALSE
  /\ revision = "preloadNeighboringPhotos"
  /\ now = 0
  /\ store = NoCache
  /\ calc \in CalcInputs
  /\ Unmounted

\* modIndex(x, arr) on an array of y photos.
CallModIndex ==
  /\ calc.fn = "modIndex" /\ ~calc.done
  /\ calc' = [calc EXCEPT !.done = TRUE, !.out = << modIndex(calc.x, calc.y) >>]
  /\ UNCHANGED appVars

\* The index componentDidMount computes at the timestamps x and z for y photos.
CallMountIndex ==
  /\ calc.fn = "mountIndex" /\ ~calc.done
  /\ calc' = [calc EXCEPT !.done = TRUE,
                          !.out = << MountIndex(calc.x, calc.y), MountIndex(calc.z, calc.y) >>]
  /\ UNCHANGED appVars

\* The return of getPhotos for the photos arr and the stored name x.
CallShuffle ==
  /\ calc.fn = "shuffle" /\ ~calc.done
  /\ calc' = [calc EXCEPT !.done = TRUE, !.out = shuffle(calc.arr, calc.x)]
  /\ UNCHANGED appVars

CalcNext == CallModIndex \/ CallMountIndex \/ CallShuffle

CalcSpec == CalcInit /\ [][CalcNext]_vars

\* ----- Properties --------------------------------------------------------

\* The tab's getPhotos found an entry and has tested its age.
HasRead(s) == cachedData[s].present

Age(s) == readAt[s] - cachedData[s].updatedAt

StaleRead(s) == HasRead(s) /\ Age(s) >= CACHE_TTL

FreshRead(s) == HasRead(s) /\ Age(s) < CACHE_TTL

Floating(s) == task[s].st # "idle" /\ ~task[s].awaited

Awaited(s) == task[s].st # "idle" /\ task[s].awaited

Overwritten(s) == task[s].st = "stored" /\ store = task[s].cacheData

\* A read of a stale entry takes the entry's photos and starts a fetch that
\* it does not await.
StaleReadServesCache ==
  \A s \in Tabs : StaleRead(s) =>
    /\ pc[s] \in {"name", "ready"}
    /\ Floating(s)
    /\ nFetch[s] = 1
    /\ photoCollection[s] = cachedData[s].photos
    /\ pc[s] = "ready" => state[s].photos = shuffle(cachedData[s].photos, name)

\* C1 as stated: a stale read returns the entry's photos without waiting
\* for the refetch, and once the background fetch has succeeded the stored
\* entry is eventually overwritten with the fetched photos.
C1_Original ==
  /\ []StaleReadServesCache
  /\ \A s \in Tabs : (Floating(s) /\ task[s].st = "writing") ~> Overwritten(s)

\* C1, amended: a stale read returns the entry's photos without waiting for
\* the refetch, and once the background fetch has succeeded its write
\* eventually settles: either the stored entry is overwritten with the
\* fetched photos, or the write has failed and the entry is as it was.
C1_StaleRevalidation ==
  /\ []StaleReadServesCache
  /\ \A s \in Tabs : (Floating(s) /\ task[s].st = "writing")
                       ~> (Overwritten(s) \/ task[s].st = "writeFailed")
  /\ [][\A s \in Tabs : task[s].st = "writing" /\ task'[s].st = "writeFailed"
                          => store' = store]_vars

C1_Witness ==
  \E s \in Tabs :
    /\ StaleRead(s)
    /\ pc[s] = "ready"
    /\ Overwritten(s)
    /\ state[s].photos = shuffle(cachedData[s].photos, name)
    /\ task[s].cacheData.photos # cachedData[s].photos

\* C2: a read that finds the stored entry fresh makes no remote fetch.
C2_CacheHit ==
  \A s \in Tabs : FreshRead(s) =>
    /\ task[s].st = "idle"
    /\ nFetch[s] = 0
    /\ nSetItem[s] = 0
    /\ photoCollection[s] = cachedData[s].photos

C2_Witness ==
  \E s \in Tabs : FreshRead(s) /\ Age(s) = CACHE_TTL - 1 /\ pc[s] = "ready"

C4_SourceFailure ==
  \A s \in Tabs : (Awaited(s) /\ task[s].st = "fetchFailed") =>
    /\ pc[s] = "failed"
    /\ task[s].rejection = "caught"
    /\ nSetItem[s] = 0
    /\ state[s].photos = << >>
    /\ (\A u \in Tabs : task[u].st # "stored") => ~store.present

C4_Witness ==
  \E s \in Tabs : Awaited(s) /\ task[s].st = "fetchFailed" /\ ~store.present

\* C5: a background refresh that fails writes nothing and leaves the stored
\* entry and the read that started it as they were, and a read that finds
\* the entry stale starts a refetch of its own whatever became of the others.
C5_RefreshFailure ==
  /\ [](\A s \in Tabs : (Floating(s) /\ task[s].st = "fetchFailed") =>
          /\ nSetItem[s] = 0
          /\ photoCollection[s] = cachedData[s].photos
          /\ \A u \in Tabs : StaleRead(u) => task[u].st # "idle" /\ nFetch[u] = 1)
  /\ [][\A s \in Tabs : (Floating(s) /\ task[s].st = "fetching" /\ task'[s].st = "fetchFailed") =>
          /\ store' = store
          /\ pc'[s] = pc[s]
          /\ photoCollection'[s] = photoCollection[s]
          /\ state'[s] = state[s]]_vars

C5_Witness ==
  \E s, u \in Tabs :
    /\ s # u
    /\ Floating(s) /\ task[s].st = "fetchFailed"
    /\ pc[s] = "ready"
    /\ store = cachedData[s]
    /\ StaleRead(u) /\ readAt[u] > readAt[s]
    /\ task[u].st = "fetching"

\* C6 as stated: the updatedAt of the stored entry never decreases.
C6_UpdatedAtMonotone == [][store'.updatedAt >= store.updatedAt]_vars

\* C7: when the setItem of a cache miss fails, the read still returns the
\* photos it fetched.
C7_WriteFailure ==
  \A s \in Tabs : (Awaited(s) /\ task[s].st = "writeFailed") =>
    /\ pc[s] \in {"name", "ready"}
    /\ photoCollection[s] = task[s].cacheData.photos
    /\ pc[s] = "ready" => state[s].photos = shuffle(task[s].cacheData.photos, name)

C7_Witness ==
  \E s \in Tabs :
    /\ Awaited(s) /\ task[s].st = "writeFailed"
    /\ pc[s] = "ready"
    /\ ~store.present

Preloads == { <<s, i>> \in Tabs \X (1 .. (1 + MaxSteps)) : i \in DOMAIN preloads[s] }

\* The index of the neighbour d places from index i in n photos.
Neighbour(i, d, n) == (i + d) % n

\* Every preload loads the photo after its index.
LoadsNext(p, photos) ==
  /\ "next" \in DOMAIN p.loads
  /\ p.photo["next"] = photos[Neighbour(p.index, 1, Len(photos)) + 1]

\* C8 as stated: a preload resolves once the next image has loaded and
\* rejects once the next image's load has failed, whatever the other loads do.
C8_Original ==
  \A q \in Preloads :
    LET p == preloads[q[1]][q[2]]
    IN  /\ LoadsNext(p, state[q[1]].photos)
        /\ p.result = "resolved" <=> p.loads["next"] = "loaded"
        /\ p.result = "rejected" <=> p.loads["next"] = "error"

\* C8, amended: a preload resolves once every image it loads has loaded (the
\* next one, the current one in the preloadPhotos revision, and the previous
\* one in a development build) and rejects as soon as any of them fails; it
\* depends on the next image alone only where that is the one image loaded.
C8_PreloadAll ==
  \A q \in Preloads :
    LET p == preloads[q[1]][q[2]]
    IN  /\ LoadsNext(p, state[q[1]].photos)
        /\ ("prev" \in DOMAIN p.loads) <=> development
        /\ ("current" \in DOMAIN p.loads) <=> (revision = "preloadPhotos")
        /\ p.result = "resolved" <=> (\A r \in DOMAIN p.loads : p.loads[r] = "loaded")
        /\ p.result = "rejected" <=> (\E r \in DOMAIN p.loads : p.loads[r] = "error")
        /\ DOMAIN p.loads = {"next"} =>
             /\ p.result = "resolved" <=> p.loads["next"] = "loaded"
             /\ p.result = "rejected" <=> p.loads["next"] = "error"

C8_Witness ==
  \E q \in Preloads :
    LET p == preloads[q[1]][q[2]]
    IN  /\ "prev" \in DOMAIN p.loads
        /\ p.loads["next"] = "loaded"
        /\ p.loads["prev"] = "error"
        /\ p.result = "rejected"

\* C9 as stated: every rejection is caught by the path that started it.
C9_AllCaught == Unhandled = {}

\* C10: once the fetch of a mount has failed the component stays as it was
\* constructed, with no photos and nothing to render, and starts nothing.
C10_NoRetry ==
  /\ [](\A s \in Tabs : (Awaited(s) /\ task[s].st = "fetchFailed") =>
          /\ pc[s] = "failed"
          /\ state[s] = [photos |-> << >>, index |-> 0]
          /\ getPhoto(s) = NoPhoto
          /\ preloads[s] = << >>
          /\ nFetch[s] = 1)
  /\ [][\A s \in Tabs : (Awaited(s) /\ task[s].st = "fetchFailed") =>
          /\ pc'[s] = pc[s]
          /\ task'[s] = task[s]
          /\ nFetch'[s] = nFetch[s]
          /\ state'[s] = state[s]
          /\ preloads'[s] = preloads[s]]_vars

C10_Witness ==
  \E s, u \in Tabs :
    /\ pc[s] = "failed"
    /\ pc[u] = "ready"
    /\ store.present
    /\ IsStale(now, store.updatedAt)

\* C11: the normalized index is ((index % length) + length) % length with
\* JavaScript's %: it lies in [0, length) and is congruent to the index
\* modulo the length; -1 of 5 gives 4 and 5 of 5 gives 0.
C11_Normalized ==
  (calc.fn = "modIndex" /\ calc.done) =>
    LET r == calc.out[1]
    IN  /\ r \in 0 .. (calc.y - 1)
        /\ (r - calc.x) % calc.y = 0
        /\ r = calc.x % calc.y
        /\ (calc.x = -1 /\ calc.y = 5) => r = 4
        /\ (calc.x = 5 /\ calc.y = 5) => r = 0

C11_Witness ==
  /\ calc.fn = "modIndex" /\ calc.done
  /\ calc.x = -1 /\ calc.y = 5
  /\ calc.out = << 4 >>

\* The first tick of the UTC day of timestamp t.
DayStart(t) == t - (t % TicksPerDay)

\* C12: the index chosen at mount is the number of whole days since the
\* epoch modulo the length: it lies in [0, length), is the same at two
\* timestamps of one day, and is one greater, wrapping to 0, a day later.
C12_DayIndex ==
  (calc.fn = "mountIndex" /\ calc.done) =>
    LET o1 == calc.out[1]
        o2 == calc.out[2]
    IN  /\ o1 \in 0 .. (calc.y - 1)
        /\ o1 = (DayStart(calc.x) \div TicksPerDay) % calc.y
        /\ DayStart(calc.z) = DayStart(calc.x) => o2 = o1
        /\ DayStart(calc.z) = DayStart(calc.x) + TicksPerDay => o2 = (o1 + 1) % calc.y

C12_Witness ==
  /\ calc.fn = "mountIndex" /\ calc.done
  /\ calc.y = 2
  /\ DayStart(calc.z) = DayStart(calc.x) + TicksPerDay
  /\ calc.x # DayStart(calc.x)
  /\ calc.out = << 1, 0 >>

Count(seq, v) == Cardinality({i \in DOMAIN seq : seq[i] = v})

SameMultiset(a, b) == Len(a) = Len(b) /\ \A v \in PhotoIds : Count(a, v) = Count(b, v)

\* C14: what getPhotos returns is a permutation of the photos it read: every
\* photo as often as it was read, for every seed and for the absent name.
C14_Permutation ==
  (calc.fn = "shuffle" /\ calc.done) => SameMultiset(calc.out, calc.arr)

C14_Witness ==
  /\ calc.fn = "shuffle" /\ calc.done
  /\ calc.x = NoName
  /\ Len(calc.arr) = MaxArr
  /\ calc.out # calc.arr
  /\ SameMultiset(calc.out, calc.arr)

\* The offset of the image a preload loads in each role.
RoleOffset(r) == CASE r = "next" -> 1 [] r = "current" -> 0 [] r = "prev" -> -1

C16_Original ==
  \A q \in Preloads :
    LET p == preloads[q[1]][q[2]]
        n == Len(state[q[1]].photos)
    IN  /\ DOMAIN p.loads = {"next", "prev"}
        /\ p.photo["next"] = state[q[1]].photos[Neighbour(p.index, 1, n) + 1]
        /\ p.photo["prev"] = state[q[1]].photos[Neighbour(p.index, -1, n) + 1]
        /\ p.loads["next"] = "loaded" => p.result = "resolved"

\* C16, amended: every index change starts one preload for the new index. It
\* loads the next image, the previous image in a development build only, and
\* the current image in the preloadPhotos revision; no load is left out of
\* the result: while the previous image is loading the preload is not
\* resolved, and once it has failed the preload is rejected.
C16_FanOut ==
  /\ [](\A q \in Preloads :
          LET p == preloads[q[1]][q[2]]
              photos == state[q[1]].photos
              n == Len(photos)
          IN  /\ DOMAIN p.loads = {"next"} \cup (IF development THEN {"prev"} ELSE {})
                                    \cup (IF revision = "preloadPhotos" THEN {"current"} ELSE {})
              /\ p.photo["next"] = photos[Neighbour(p.index, 1, n) + 1]
              /\ development =>
                   /\ p.photo["prev"] = photos[Neighbour(p.index, -1, n) + 1]
                   /\ p.loads["prev"] = "loading" => p.result # "resolved"
                   /\ p.loads["prev"] = "error" => p.result = "rejected")
  /\ [][\A s \in Tabs :
          state'[s] # state[s] =>
            /\ Len(preloads'[s]) = Len(preloads[s]) + 1
            /\ LET p == preloads'[s][Len(preloads'[s])]
               IN  /\ p.index = state'[s].index
                   /\ \A r \in DOMAIN p.loads : p.loads[r] = "loading"]_vars

C16_Witness ==
  \E s \in Tabs :
    /\ Len(keys[s]) = 1
    /\ Len(preloads[s]) = 2
    /\ preloads[s][2].index = state[s].index
    /\ preloads[s][2].loads["next"] = "loaded"
    /\ preloads[s][2].loads["prev"] = "loading"
    /\ preloads[s][2].result = "pending"

\* Some preload of tab s has been rejected by a failed image load.
PreloadFailed(s) == \E i \in DOMAIN preloads[s] : preloads[s][i].result = "rejected"

\* C17: a failed image load leaves the photos and the index as they were, the
\* selected photo stays the one render shows, and after it the left and right
\* keys still move the index and start a preload for the new index.
C17_PreloadFailure ==
  /\ [][\A s \in Tabs :
          (\E i \in DOMAIN preloads[s] :
             /\ i \in DOMAIN preloads'[s]
             /\ preloads'[s][i].result = "rejected"
             /\ preloads[s][i].result # "rejected")
            => state'[s] = state[s] /\ pc'[s] = pc[s]]_vars
  /\ [](\A s \in Tabs :
          PreloadFailed(s) =>
            /\ pc[s] = "ready"
            /\ getPhoto(s) = state[s].photos[state[s].index + 1]
            /\ (development /\ Len(preloads[s]) < 1 + MaxSteps) =>
                 ENABLED KeyStep(s, 1) /\ ENABLED KeyStep(s, -1))
  /\ [][\A s \in Tabs :
          (PreloadFailed(s) /\ keys'[s] # keys[s]) =>
            /\ state'[s].index # state[s].index
            /\ state'[s].photos = state[s].photos
            /\ Len(preloads'[s]) = Len(preloads[s]) + 1
            /\ preloads'[s][Len(preloads'[s])].index = state'[s].index
            /\ preloads'[s][Len(preloads'[s])].result = "pending"]_vars

C17_Witness ==
  \E s \in Tabs :
    /\ pc[s] = "ready"
    /\ Len(preloads[s]) = 2
    /\ preloads[s][1].result = "rejected"
    /\ preloads[s][2].result = "pending"
    /\ preloads[s][2].index = state[s].index
    /\ preloads[s][2].index # preloads[s][1].index
    /\ getPhoto(s) # NoPhoto

\* C18: a step of a background refetch (its fetch or its write settling, in
\* this tab or in another) changes nothing of a session that is ready: its
\* photos, index and preloads stay, so a session that read a stale entry keeps
\* showing that entry's photos after the stored entry has been replaced.
C18_StoreOnly ==
  /\ [][\A u \in Tabs :
          (Floating(u) /\ task'[u] # task[u]) =>
            \A s \in Tabs :
              pc[s] = "ready" =>
                /\ pc'[s] = "ready"
                /\ state'[s] = state[s]
                /\ preloads'[s] = preloads[s]
                /\ photoCollection'[s] = photoCollection[s]]_vars
  /\ [](\A s \in Tabs :
          (pc[s] = "ready" /\ StaleRead(s)) =>
            /\ state[s].photos = shuffle(cachedData[s].photos, name)
            /\ getPhoto(s) = shuffle(cachedData[s].photos, name)[state[s].index + 1])

\* The session mounted on an earlier day than its refetch completed, so the
\* write landed while the session was ready.
C18_Witness ==
  \E s \in Tabs :
    /\ pc[s] = "ready"
    /\ StaleRead(s)
    /\ Overwritten(s)
    /\ state[s].index # (task[s].cacheData.updatedAt \div TicksPerDay) % Len(state[s].photos)
    /\ store.photos # cachedData[s].photos
    /\ Len(state[s].photos) # Len(store.photos)

RECURSIVE SumSeq(_)
\* The right steps minus the left steps of a sequence of key presses.
SumSeq(seq) == IF seq = << >> THEN 0 ELSE Head(seq) + SumSeq(Tail(seq))

StaleReaders == {s \in Tabs : StaleRead(s)}

\* The tabs whose refetch has called setItem.
Writers == {s \in StaleReaders : nSetItem[s] > 0}

\* C20: every read that finds the stored entry stale starts a remote fetch of
\* its own, also while another tab's refetch is in flight: n stale reads have
\* made n fetches and at most n writes of the entry.
C20_NoDeduplication ==
  /\ [](\A s \in StaleReaders : Floating(s) /\ nFetch[s] = 1 /\ nSetItem[s] <= 1)
  /\ [](Cardinality({s \in Tabs : Floating(s)}) = Cardinality(StaleReaders))
  /\ [](Cardinality(Writers) <= Cardinality(StaleReaders))
  /\ [][\A s \in Tabs :
          (pc[s] = "getItem" /\ pc'[s] = "name" /\ now - store.updatedAt >= CACHE_TTL) =>
            /\ task'[s].st = "fetching"
            /\ ~task'[s].awaited
            /\ nFetch'[s] = nFetch[s] + 1
            /\ \A u \in Tabs \ {s} : task'[u] = task[u] /\ nFetch'[u] = nFetch[u]]_vars

C20_Witness ==
  \E s \in Tabs : \E u \in Tabs \ {s} :
    /\ StaleRead(s) /\ StaleRead(u)
    /\ task[s].st = "fetching" /\ task[u].st = "fetching"
    /\ nFetch[s] = 1 /\ nFetch[u] = 1

\* Preload q has emitted 'photoReady' exactly when the image that was current
\* when it started has loaded, whatever became of its other images.
EmittedOnCurrentLoad(q) ==
  LET p == preloads[q[1]][q[2]]
  IN  p.emitted <=> ("current" \in DOMAIN p.loads /\ p.loads["current"] = "loaded")

\* C21 as stated: 'photoReady' is emitted only once the image of the
\* currently indexed photo has loaded, never when that load has failed, and
\* whatever the next and previous images do.
C21_PhotoReady ==
  /\ [](\A q \in Preloads : EmittedOnCurrentLoad(q))
  /\ [][\A s \in Tabs : \A i \in DOMAIN preloads[s] :
          (preloads'[s][i].emitted /\ ~preloads[s][i].emitted) =>
            preloads[s][i].photo["current"] = getPhoto(s)]_vars

TypeOK ==
  /\ now \in 0 .. (MaxTime + MaxTime)
  /\ \A s \in Tabs : pc[s] \in {"unmounted", "keys", "fetch", "getItem", "name", "ready", "failed"}

====
